---- MODULE Spec2Model ----
(***************************************************************************)
(* Model of custom_components/evergy/pyEvergy.py: the Evergy client        *)
(* (login, logout, get_usage_range), the nine-step davinci handshake of    *)
(* EvergyLoginHandler and EvergyLogoutHandler.  One client instance, one   *)
(* flow of control: pc is the await point the running call is parked at.   *)
(* The remote service is the environment: every response (status, body     *)
(* shape, field values) is drawn from a small set by \E.                   *)
(***************************************************************************)
EXTENDS Integers, Sequences, FiniteSets, TLC

\* ---------------------------------------------------------------- bounds
MaxCalls == 2     \* top-level calls (login / logout / get_usage_range) per run
MaxVal   == 2     \* distinct step ids the widget hands out
MaxDate  == 2     \* distinct calendar dates for start / end
MaxCount == 4     \* largest num_intervals handed to the interval arithmetic

\* Python None / JSON null, and an attribute that was declared but never
\* assigned (reading it raises AttributeError).
Null  == 0
Unset == -1

Vals  == 1..MaxVal
Dates == 1..MaxDate

\* Values of the identifiers the handshake only stores, copies into a later
\* request or compares with one other value of their kind (connectionId,
\* interactionId, flowId, access_token): two of each kind tell "same" from
\* "different".
Opaque == {1, 2}

\* What the portal holds for the one credential pair of the client: its
\* account number, its premise id, a usage payload.
Account == 1
Premise == 1
Usage   == 1

\* A field the response body does not carry (data[key] raises KeyError).
Missing == Unset

\* A naive datetime, to the minute: a day number and the minute of that day.
MinutesPerDay == 24 * 60
Datetime(d, m) == [day |-> d, minute |-> m]
Epoch == Datetime(0, 0)

\* datetime.timedelta(days=d, hours=h, minutes=m), normalised as Python keeps
\* it: whole days, and the rest of the day (0 <= rest < one day).
timedelta(d, h, m) ==
    LET total == 60 * h + m
    IN  [days |-> d + (total \div MinutesPerDay), minutes |-> total % MinutesPerDay]

\* datetime + timedelta.
Plus(dt, td) ==
    LET total == dt.minute + td.minutes
    IN  Datetime(dt.day + td.days + (total \div MinutesPerDay), total % MinutesPerDay)

\* The interval arithmetic without the inclusive-count adjustment.
get_end_date_exclusive(from_date, num_intervals, interval) ==
    IF interval = "mi" THEN Plus(from_date, timedelta(0, 0, 15 * num_intervals))
    ELSE IF interval = "h" THEN Plus(from_date, timedelta(0, num_intervals, 0))
    ELSE Plus(from_date, timedelta(num_intervals, 0, 0))

\* get_end_date_from_number_of_intervals, lines 46-63.
get_end_date_from_number_of_intervals(from_date, num_intervals, interval) ==
    LET n == num_intervals - 1
    IN  IF interval = "mi" THEN Plus(from_date, timedelta(0, 0, 15 * n))
        ELSE IF interval = "h" THEN Plus(from_date, timedelta(0, n, 0))
        ELSE Plus(from_date, timedelta(n, 0, 0))

\* Arguments the function is called with: start datetimes at midnight, late
\* morning and late evening, counts from 0, the three documented intervals
\* and one string that is none of them.
FromMinutes == {0, 11 * 60 + 45, 23 * 60, 23 * 60 + 45}
FromDates == { Datetime(d, m) : d \in 1..MaxDate, m \in FromMinutes }
Counts == 0..MaxCount
Intervals == {"mi", "h", "d", "w"}

\* ------------------------------------------------------------ state
VARIABLES
    \* Evergy instance
    logged_in, session, account_number, premise_id, dashboard_data, usage_data,
    \* EvergyLoginHandler instance of the running login()
    auth_data, access_token, connectionId, interactionId, flowId, id,
    \* locals of the running handshake step: the request it sent and the
    \* response body it got (data = await resp.json()); the account selector
    \* body read by Evergy.login (account_data)
    sent, data, account_data,
    \* aiohttp.ClientSession objects: number created, the closed ones, and
    \* the ones whose handshake ran through postprocessing_api
    nsess, closed, authed,
    \* control: running top-level call, await point, arguments, outcome
    op, pc, start, end, result,
    \* requests issued by the running (or last) top-level call, and the
    \* number of top-level calls made
    reqs, ncalls,
    \* how many times the running top-level call has entered Evergy.login
    nlogin,
    \* the body get_usage_range got from the usage endpoint (usage_response)
    usage_response,
    \* what get_auth_data found in the login page it fetched
    page,
    \* the last call of get_end_date_from_number_of_intervals: its three
    \* arguments and the datetime it returned
    call_from, call_count, call_interval, call_end

evergy  == <<logged_in, session, account_number, premise_id, dashboard_data, usage_data>>
handler == <<auth_data, access_token, connectionId, interactionId, flowId, id>>
locals  == <<sent, data, account_data>>
pool    == <<nsess, closed, authed>>
calc    == <<call_from, call_count, call_interval, call_end>>
vars    == <<evergy, handler, locals, pool, op, pc, start, end, result, reqs, ncalls,
             nlogin, usage_response, page, calc>>

\* dashboard_data before any dashboard response was stored (None)
DashNone == [shape |-> "null", premise |-> Null]

NoResult == [kind |-> "none", val |-> "", usage |-> Null, dashboard |-> DashNone]
Raised(exc) == [kind |-> "raise", val |-> exc, usage |-> Null, dashboard |-> DashNone]
Returned(v) == [kind |-> "return", val |-> v, usage |-> Null, dashboard |-> DashNone]
ReturnedDict(u, d) == [kind |-> "return", val |-> "dict", usage |-> u, dashboard |-> d]

BoolStr(b) == IF b THEN "True" ELSE "False"

NoSent == [step |-> "", id |-> Unset, connectionId |-> Unset, access_token |-> Unset]
NoData ==
    [id |-> Missing, connectionId |-> Missing, interactionId |-> Missing,
     flowId |-> Missing, access_token |-> Missing]

NoUsageResponse == [shape |-> "none", data |-> Null]
NoAccountData == [kind |-> "none", len |-> 0, acct |-> Missing]

\* The nine handshake steps in the order login() awaits them.
Steps ==
    << "get_auth_data", "get_sdktoken", "start_flow", "get_login_form",
       "submit_login_form", "get_new_connection_id", "get_new_connection_cookie",
       "get_new_access_token", "postprocessing_api" >>

\* login() with the credential submission left out of the sequence.
StepAfterSkipsSubmit(i) ==
    IF i = 4 THEN Steps[6] ELSE IF i < Len(Steps) THEN Steps[i + 1] ELSE "account"

\* The step login() awaits after step number i has returned; after the ninth
\* the handshake is over and Evergy.login reads the account selector.
StepAfter(i) == IF i < Len(Steps) THEN Steps[i + 1] ELSE "account"

\* A handshake step's session.get / session.post: the request goes out on
\* self.session with the step id, connection id and token the step puts in it.
Request(step, sid, sconn, stok) ==
    /\ reqs' = Append(reqs, [step |-> step, sess |-> session])
    /\ sent' = [step |-> step, id |-> sid, connectionId |-> sconn, access_token |-> stok]
    /\ account_data' = account_data

\* A data-endpoint or logout request of the Evergy client on self.session.
DataRequest(step) ==
    /\ reqs' = Append(reqs, [step |-> step, sess |-> session])
    /\ UNCHANGED <<sent, data>>

Init ==
    /\ logged_in = FALSE
    /\ session = Unset
    /\ account_number = Null
    /\ premise_id = Null
    /\ dashboard_data = DashNone
    /\ usage_data = Null
    /\ auth_data = "unset"
    /\ access_token = Unset
    /\ connectionId = Unset
    /\ interactionId = Unset
    /\ flowId = Unset
    /\ id = Unset
    /\ sent = NoSent
    /\ data = NoData
    /\ account_data = NoAccountData
    /\ nsess = 0
    /\ closed = {}
    /\ authed = {}
    /\ op = "none"
    /\ pc = "idle"
    /\ start = Null
    /\ end = Null
    /\ result = NoResult
    /\ reqs = << >>
    /\ ncalls = 0
    /\ nlogin = 0
    /\ usage_response = NoUsageResponse
    /\ page = ""
    /\ call_from = Epoch
    /\ call_count = 0
    /\ call_interval = ""
    /\ call_end = Epoch

\* Evergy.login, lines 461-464: a new ClientSession replaces self.session (the
\* old one is not closed) and a new EvergyLoginHandler is built on it.
EnterLogin ==
    /\ nsess' = nsess + 1
    /\ session' = nsess + 1
    /\ auth_data' = "unset"
    /\ access_token' = Unset
    /\ connectionId' = Unset
    /\ interactionId' = Unset
    /\ flowId' = Unset
    /\ id' = Unset
    /\ pc' = Steps[1]
    /\ nlogin' = nlogin + 1
    /\ UNCHANGED <<closed, authed, locals>>

\* The caller makes a top-level call on the idle client.
BeginCall(name) ==
    /\ pc = "idle"
    /\ ncalls < MaxCalls
    /\ ncalls' = ncalls + 1
    /\ usage_response' = usage_response
    /\ page' = page
    /\ UNCHANGED calc
    /\ op' = name
    /\ reqs' = reqs

\* An exception leaves a handshake step or a read inside login(): it
\* propagates out of login() unchanged.
LoginRaise(exc) ==
    /\ pc' = "login_exit"
    /\ result' = Raised(exc)

\* Step number i returned: login() awaits the next one.
NextStep(i) ==
    /\ pc' = StepAfter(i)
    /\ result' = result

\* A non-2xx response reported as a credential failure.
HttpFailAsInvalidAuth ==
    /\ LoginRaise("InvalidAuth: No such username")
    /\ data' = NoData

\* A step's response status is not 2xx (raise_for_status=True): no body is read.
HttpFail ==
    /\ LoginRaise("ClientResponseError")
    /\ data' = NoData

\* self.x = data[key] in a step that reads its keys one after the other: the
\* value is stored when this key and every key read before it is present.
Stored(present, new, old) == IF present THEN new ELSE old

Fields == Vals \cup {Missing}
OpaqueFields == Opaque \cup {Missing}

login ==
    /\ BeginCall("login")
    /\ EnterLogin
    /\ result' = NoResult
    /\ UNCHANGED <<logged_in, account_number, premise_id, dashboard_data, usage_data,
                   start, end>>

get_auth_data ==
    /\ pc = Steps[1]
    /\ Request(Steps[1], Unset, Unset, Unset)
    /\ \E out \in {"http", "nowidget", "missingattr", "ok"} :
          /\ page' = out
          /\ CASE out = "http" ->
                     /\ LoginRaise("ClientResponseError")
                     /\ auth_data' = auth_data
               [] out = "nowidget" ->
                     \* no davinci-widget-wrapper div: parser data stays {}, it is
                     \* stored, then the assert on line 133 fails
                     /\ auth_data' = "empty"
                     /\ LoginRaise("AssertionError")
               [] out = "missingattr" ->
                     \* next(filter(...)) raises StopIteration inside feed(); it
                     \* leaves the coroutine as RuntimeError, before line 131
                     /\ auth_data' = auth_data
                     /\ LoginRaise("RuntimeError")
               [] OTHER ->
                     /\ auth_data' = "descriptor"
                     /\ NextStep(1)
    /\ data' = NoData
    /\ UNCHANGED <<evergy, access_token, connectionId, interactionId, flowId, id,
                   pool, op, start, end, ncalls, nlogin, usage_response, calc>>

get_sdktoken ==
    /\ pc = Steps[2]
    /\ Request(Steps[2], Unset, Unset, Unset)
    /\ \/ /\ HttpFail
          /\ UNCHANGED handler
       \/ \E tok \in OpaqueFields :
             /\ data' = [NoData EXCEPT !.access_token = tok]
             /\ access_token' = Stored(tok # Missing, tok, access_token)
             /\ IF tok # Missing THEN NextStep(2) ELSE LoginRaise("KeyError")
             /\ UNCHANGED <<auth_data, connectionId, interactionId, flowId, id>>
    /\ UNCHANGED <<evergy, pool, op, start, end, ncalls, nlogin, usage_response, page, calc>>

start_flow ==
    /\ pc = Steps[3]
    /\ Request(Steps[3], Unset, Unset, access_token)
    /\ \/ /\ HttpFail
          /\ UNCHANGED handler
       \/ \E rid \in Fields, rconn \in OpaqueFields, rint \in OpaqueFields, rflow \in OpaqueFields :
             LET ok1 == rid # Missing
                 ok2 == ok1 /\ rconn # Missing
                 ok3 == ok2 /\ rint # Missing
                 ok4 == ok3 /\ rflow # Missing
             IN  /\ data' = [NoData EXCEPT !.id = rid, !.connectionId = rconn,
                                           !.interactionId = rint, !.flowId = rflow]
                 /\ id' = Stored(ok1, rid, id)
                 /\ connectionId' = Stored(ok2, rconn, connectionId)
                 /\ interactionId' = Stored(ok3, rint, interactionId)
                 /\ flowId' = Stored(ok4, rflow, flowId)
                 /\ IF ok4 THEN NextStep(3) ELSE LoginRaise("KeyError")
                 /\ UNCHANGED <<auth_data, access_token>>
    /\ UNCHANGED <<evergy, pool, op, start, end, ncalls, nlogin, usage_response, page, calc>>

get_login_form ==
    /\ pc = Steps[4]
    /\ Request(Steps[4], id, connectionId, Unset)
    /\ \/ /\ HttpFail
          /\ UNCHANGED handler
       \/ \E rid \in Fields :
             /\ data' = [NoData EXCEPT !.id = rid]
             /\ id' = Stored(rid # Missing, rid, id)
             /\ IF rid # Missing THEN NextStep(4) ELSE LoginRaise("KeyError")
             /\ UNCHANGED <<auth_data, access_token, connectionId, interactionId, flowId>>
    /\ UNCHANGED <<evergy, pool, op, start, end, ncalls, nlogin, usage_response, page, calc>>

\* The two checks of submit_login_form in the other order.
SubmitOutcomePasswordFirst(rflow, rid, curFlow, curId) ==
    IF rid = Missing \/ rflow = Missing THEN "KeyError"
    ELSE IF rid = curId THEN "InvalidAuth: Wrong password"
    ELSE IF rflow # curFlow THEN "InvalidAuth: No such username"
    ELSE "ok"

\* submit_login_form without the unchanged-id check.
SubmitOutcomeNoPasswordCheck(rflow, rid, curFlow, curId) ==
    IF rflow = Missing THEN "KeyError"
    ELSE IF rflow # curFlow THEN "InvalidAuth: No such username"
    ELSE IF rid = Missing THEN "KeyError"
    ELSE "ok"

\* submit_login_form, lines 259-266: what the step does with a 2xx response
\* carrying flowId rflow and id rid, when the handler holds curFlow and curId.
SubmitOutcome(rflow, rid, curFlow, curId) ==
    IF rflow = Missing THEN "KeyError"
    ELSE IF rflow # curFlow THEN "InvalidAuth: No such username"
    ELSE IF rid = Missing THEN "KeyError"
    ELSE IF rid = curId THEN "InvalidAuth: Wrong password"
    ELSE "ok"

\* submit_login_form assigning the response id before its two checks.
submit_login_form_adopts_id_first ==
    /\ pc = Steps[5]
    /\ Request(Steps[5], id, connectionId, Unset)
    /\ \/ /\ HttpFail
          /\ UNCHANGED handler
       \/ \E rflow \in OpaqueFields, rid \in Fields :
             LET out == SubmitOutcome(rflow, rid, flowId, id) IN
             /\ data' = [NoData EXCEPT !.flowId = rflow, !.id = rid]
             /\ id' = Stored(rid # Missing, rid, id)
             /\ IF out = "ok" THEN NextStep(5) ELSE LoginRaise(out)
             /\ UNCHANGED <<auth_data, access_token, connectionId, interactionId, flowId>>
    /\ UNCHANGED <<evergy, pool, op, start, end, ncalls, nlogin, usage_response, page, calc>>

submit_login_form ==
    /\ pc = Steps[5]
    /\ Request(Steps[5], id, connectionId, Unset)
    /\ \/ /\ HttpFail
          /\ UNCHANGED handler
       \/ \E rflow \in OpaqueFields, rid \in Fields :
             LET out == SubmitOutcome(rflow, rid, flowId, id) IN
             /\ data' = [NoData EXCEPT !.flowId = rflow, !.id = rid]
             /\ id' = Stored(out = "ok", rid, id)
             /\ IF out = "ok" THEN NextStep(5) ELSE LoginRaise(out)
             /\ UNCHANGED <<auth_data, access_token, connectionId, interactionId, flowId>>
    /\ UNCHANGED <<evergy, pool, op, start, end, ncalls, nlogin, usage_response, page, calc>>

\* get_new_connection_id reading flowId and interactionId from its response
\* the way start_flow does.
get_new_connection_id_rereads_flow ==
    /\ pc = Steps[6]
    /\ Request(Steps[6], id, connectionId, Unset)
    /\ \/ /\ HttpFail
          /\ UNCHANGED handler
       \/ \E rid \in Vals, rconn \in Opaque, rint \in Opaque, rflow \in Opaque :
             /\ data' = [NoData EXCEPT !.id = rid, !.connectionId = rconn,
                                       !.interactionId = rint, !.flowId = rflow]
             /\ id' = rid
             /\ connectionId' = rconn
             /\ interactionId' = rint
             /\ flowId' = rflow
             /\ NextStep(6)
             /\ UNCHANGED <<auth_data, access_token>>
    /\ UNCHANGED <<evergy, pool, op, start, end, ncalls, nlogin, usage_response, page, calc>>

\* get_new_connection_id storing the new step id but not the new connectionId.
get_new_connection_id_keeps_connection ==
    /\ pc = Steps[6]
    /\ Request(Steps[6], id, connectionId, Unset)
    /\ \/ /\ HttpFail
          /\ UNCHANGED handler
       \/ \E rid \in Vals, rconn \in Opaque :
             /\ data' = [NoData EXCEPT !.id = rid, !.connectionId = rconn]
             /\ id' = rid
             /\ NextStep(6)
             /\ UNCHANGED <<auth_data, access_token, connectionId, interactionId, flowId>>
    /\ UNCHANGED <<evergy, pool, op, start, end, ncalls, nlogin, usage_response, page, calc>>

get_new_connection_id ==
    /\ pc = Steps[6]
    /\ Request(Steps[6], id, connectionId, Unset)
    /\ \/ /\ HttpFail
          /\ UNCHANGED handler
       \/ \E rid \in Fields, rconn \in OpaqueFields :
             LET ok1 == rid # Missing
                 ok2 == ok1 /\ rconn # Missing
             IN  /\ data' = [NoData EXCEPT !.id = rid, !.connectionId = rconn]
                 /\ id' = Stored(ok1, rid, id)
                 /\ connectionId' = Stored(ok2, rconn, connectionId)
                 /\ IF ok2 THEN NextStep(6) ELSE LoginRaise("KeyError")
                 /\ UNCHANGED <<auth_data, access_token, interactionId, flowId>>
    /\ UNCHANGED <<evergy, pool, op, start, end, ncalls, nlogin, usage_response, page, calc>>

get_new_connection_cookie ==
    /\ pc = Steps[7]
    /\ Request(Steps[7], id, connectionId, Unset)
    /\ \/ /\ HttpFail
          /\ UNCHANGED handler
       \/ \E rid \in Fields :
             /\ data' = [NoData EXCEPT !.id = rid]
             /\ id' = Stored(rid # Missing, rid, id)
             /\ IF rid # Missing THEN NextStep(7) ELSE LoginRaise("KeyError")
             /\ UNCHANGED <<auth_data, access_token, connectionId, interactionId, flowId>>
    /\ UNCHANGED <<evergy, pool, op, start, end, ncalls, nlogin, usage_response, page, calc>>

\* get_new_access_token storing the new step id but not the new token.
get_new_access_token_keeps_token ==
    /\ pc = Steps[8]
    /\ Request(Steps[8], id, connectionId, Unset)
    /\ \/ /\ HttpFail
          /\ UNCHANGED handler
       \/ \E rid \in Vals, tok \in Opaque :
             /\ data' = [NoData EXCEPT !.id = rid, !.access_token = tok]
             /\ id' = rid
             /\ NextStep(8)
             /\ UNCHANGED <<auth_data, access_token, connectionId, interactionId, flowId>>
    /\ UNCHANGED <<evergy, pool, op, start, end, ncalls, nlogin, usage_response, page, calc>>

get_new_access_token ==
    /\ pc = Steps[8]
    /\ Request(Steps[8], id, connectionId, Unset)
    /\ \/ /\ HttpFail
          /\ UNCHANGED handler
       \/ \E rid \in Fields, tok \in OpaqueFields :
             LET ok1 == rid # Missing
                 ok2 == ok1 /\ tok # Missing
             IN  /\ data' = [NoData EXCEPT !.id = rid, !.access_token = tok]
                 /\ id' = Stored(ok1, rid, id)
                 /\ access_token' = Stored(ok2, tok, access_token)
                 /\ IF ok2 THEN NextStep(8) ELSE LoginRaise("KeyError")
                 /\ UNCHANGED <<auth_data, connectionId, interactionId, flowId>>
    /\ UNCHANGED <<evergy, pool, op, start, end, ncalls, nlogin, usage_response, page, calc>>

\* resp.json(content_type=None) is awaited and its value dropped: any 2xx
\* response completes the handshake on this session.
postprocessing_api ==
    /\ pc = Steps[9]
    /\ Request(Steps[9], Unset, Unset, access_token)
    /\ \/ /\ HttpFail
          /\ authed' = authed
       \/ /\ NextStep(9)
          /\ data' = NoData
          /\ authed' = authed \cup {session}
    /\ UNCHANGED <<evergy, handler, nsess, closed, op, start, end, ncalls, nlogin, usage_response, page, calc>>

\* ------------------------------------------------ Evergy.login, the reads
\* Bodies the account selector endpoint may answer with: JSON null, or a list
\* of len entries whose first entry carries accountNumber acct (a number,
\* null, or no such key).
AccountBodies ==
    { [kind |-> "null", len |-> 0, acct |-> Missing],
      [kind |-> "list", len |-> 0, acct |-> Missing] }
    \cup { [kind |-> "list", len |-> 1, acct |-> a] : a \in {Account, Null, Missing} }

\* The assert compiled away: every body passes.
TruthyNoAssert(body) == TRUE

\* Python truth value of the parsed body (assert account_data, line 473).
Truthy(body) == body.kind = "list" /\ body.len > 0

\* Lines 473-478: what login() does with the account selector body.
AccountOutcome(body) ==
    IF ~Truthy(body) THEN "AssertionError"
    ELSE IF body.len = 0 THEN "not_logged_in"
    ELSE IF body.acct = Missing THEN "KeyError"
    ELSE "account"

account ==
    /\ pc = "account"
    /\ DataRequest("account")
    /\ \/ /\ LoginRaise("ClientResponseError")
          /\ UNCHANGED <<logged_in, account_number, account_data>>
       \/ \E body \in AccountBodies :
             LET out == AccountOutcome(body) IN
             /\ account_data' = body
             /\ CASE out = "account" ->
                        /\ account_number' = body.acct
                        /\ logged_in' = logged_in
                        /\ pc' = "dashboard"
                        /\ result' = result
                  [] out = "not_logged_in" ->
                        /\ logged_in' = FALSE
                        /\ account_number' = account_number
                        /\ pc' = "login_exit"
                        /\ result' = Returned(BoolStr(FALSE))
                  [] OTHER ->
                        /\ LoginRaise(out)
                        /\ UNCHANGED <<logged_in, account_number>>
    /\ UNCHANGED <<session, premise_id, dashboard_data, usage_data, handler, pool,
                   op, start, end, ncalls, nlogin, usage_response, page, calc>>

\* Bodies the dashboard endpoint may answer with: JSON null, an object
\* without addresses[0].premiseId, or one whose premiseId is a number or null.
DashboardBodies ==
    { [shape |-> "null", premise |-> Null], [shape |-> "noaddr", premise |-> Null] }
    \cup { [shape |-> "ok", premise |-> p] : p \in {Premise, Null} }

\* Lines 487-489.
BothResolved(acct, prem) == acct # Null /\ prem # Null

dashboard ==
    /\ pc = "dashboard"
    /\ DataRequest("dashboard")
    /\ account_data' = account_data
    /\ \/ /\ LoginRaise("ClientResponseError")
          /\ UNCHANGED <<logged_in, premise_id, dashboard_data>>
       \/ \E body \in DashboardBodies :
             /\ dashboard_data' = body
             /\ CASE body.shape = "null" ->
                        /\ LoginRaise("TypeError")
                        /\ UNCHANGED <<logged_in, premise_id>>
                  [] body.shape = "noaddr" ->
                        /\ LoginRaise("KeyError")
                        /\ UNCHANGED <<logged_in, premise_id>>
                  [] OTHER ->
                        /\ premise_id' = body.premise
                        /\ logged_in' = BothResolved(account_number, body.premise)
                        /\ pc' = "login_exit"
                        /\ result' = Returned(BoolStr(BothResolved(account_number, body.premise)))
    /\ UNCHANGED <<session, account_number, usage_data, handler, pool,
                   op, start, end, ncalls, nlogin, usage_response, page, calc>>

\* Lines 553-556, reached with no await after the logged_in test or after
\* login() returned: the range is validated, then the usage request is built.
CheckRange(s, e) ==
    IF s > e
       THEN /\ pc' = "done"
            /\ result' = Raised("EvergyException")
       ELSE /\ pc' = "usage_req"
            /\ result' = NoResult

\* login() is left, by return or by exception: its handler and the step's
\* locals are dropped.  Under get_usage_range the returned flag is not looked
\* at (line 552) and the call goes on; an exception ends the call.
login_exit ==
    /\ pc = "login_exit"
    /\ auth_data' = "unset"
    /\ access_token' = Unset
    /\ connectionId' = Unset
    /\ interactionId' = Unset
    /\ flowId' = Unset
    /\ id' = Unset
    /\ sent' = NoSent
    /\ data' = NoData
    /\ account_data' = NoAccountData
    /\ page' = ""
    /\ IF op = "get_usage_range" /\ result.kind = "return"
          THEN CheckRange(start, end)
          ELSE /\ pc' = "done"
               /\ result' = result
    /\ UNCHANGED <<evergy, pool, op, start, end, reqs, ncalls, nlogin, usage_response, calc>>

\* ------------------------------------------------------- Evergy.logout
\* Line 498 reads self.session: AttributeError when login() never ran.
logout ==
    /\ BeginCall("logout")
    /\ IF session = Unset
          THEN /\ pc' = "done"
               /\ result' = Raised("AttributeError")
          ELSE /\ pc' = "logout_req"
               /\ result' = NoResult
    /\ UNCHANGED <<evergy, handler, locals, pool, start, end, nlogin>>

\* logout closing the session as soon as the response is in, before the
\* body is looked at.
logout_request_closes_first ==
    /\ pc = "logout_req"
    /\ pc' = "done"
    /\ account_data' = account_data
    /\ session \notin closed
    /\ DataRequest("logout")
    /\ closed' = closed \cup {session}
    /\ \E out \in {"empty", "ok"} :
          IF out = "empty"
             THEN /\ result' = Raised("AssertionError")
                  /\ logged_in' = logged_in
             ELSE /\ logged_in' = FALSE
                  /\ result' = Returned("None")
    /\ UNCHANGED <<session, account_number, premise_id, dashboard_data, usage_data,
                   handler, nsess, authed, op, start, end, ncalls, nlogin, usage_response, page, calc>>

\* logout clearing the account context defensively once the session is closed.
logout_request_clears_context ==
    /\ pc = "logout_req"
    /\ pc' = "done"
    /\ account_data' = account_data
    /\ IF session \in closed
          THEN /\ result' = Raised("RuntimeError")
               /\ UNCHANGED <<logged_in, closed, reqs, sent, data>>
               /\ UNCHANGED <<account_number, premise_id, dashboard_data>>
          ELSE /\ DataRequest("logout")
               /\ \E out \in {"http", "empty", "ok"} :
                     CASE out = "http" ->
                             /\ result' = Raised("ClientResponseError")
                             /\ UNCHANGED <<logged_in, closed>>
                             /\ UNCHANGED <<account_number, premise_id, dashboard_data>>
                       [] out = "empty" ->
                             /\ result' = Raised("AssertionError")
                             /\ UNCHANGED <<logged_in, closed>>
                             /\ UNCHANGED <<account_number, premise_id, dashboard_data>>
                       [] OTHER ->
                             /\ closed' = closed \cup {session}
                             /\ logged_in' = FALSE
                             /\ account_number' = Null
                             /\ premise_id' = Null
                             /\ dashboard_data' = DashNone
                             /\ result' = Returned("None")
    /\ UNCHANGED <<session, usage_data,
                   handler, nsess, authed, op, start, end, ncalls, nlogin, usage_response, page, calc>>

\* EvergyLogoutHandler.logout, lines 419-428, and line 500.  aiohttp refuses
\* a request on a closed session (RuntimeError) before sending anything.
logout_request ==
    /\ pc = "logout_req"
    /\ pc' = "done"
    /\ account_data' = account_data
    /\ IF session \in closed
          THEN /\ result' = Raised("RuntimeError")
               /\ UNCHANGED <<logged_in, closed, reqs, sent, data>>
          ELSE /\ DataRequest("logout")
               /\ \E out \in {"http", "empty", "ok"} :
                     CASE out = "http" ->
                             /\ result' = Raised("ClientResponseError")
                             /\ UNCHANGED <<logged_in, closed>>
                       [] out = "empty" ->
                             /\ result' = Raised("AssertionError")
                             /\ UNCHANGED <<logged_in, closed>>
                       [] OTHER ->
                             /\ closed' = closed \cup {session}
                             /\ logged_in' = FALSE
                             /\ result' = Returned("None")
    /\ UNCHANGED <<session, account_number, premise_id, dashboard_data, usage_data,
                   handler, nsess, authed, op, start, end, ncalls, nlogin, usage_response, page, calc>>

\* ---------------------------------------------- Evergy.get_usage_range
\* get_usage_range without the logged_in test: it logs in on every call.
get_usage_range_always_logs_in ==
    /\ BeginCall("get_usage_range")
    /\ \E s \in Dates, e \in Dates :
          /\ start' = s
          /\ end' = e
          /\ EnterLogin
          /\ result' = NoResult
    /\ UNCHANGED <<logged_in, account_number, premise_id, dashboard_data, usage_data>>

\* Lines 547-556: login() first when not logged in, then the range check.
get_usage_range ==
    /\ BeginCall("get_usage_range")
    /\ \E s \in Dates, e \in Dates :
          /\ start' = s
          /\ end' = e
          /\ IF ~logged_in
                THEN /\ EnterLogin
                     /\ result' = NoResult
                ELSE /\ CheckRange(s, e)
                     /\ UNCHANGED <<session, handler, locals, pool, nlogin>>
    /\ UNCHANGED <<logged_in, account_number, premise_id, dashboard_data, usage_data>>

\* Bodies the usage endpoint may answer with: JSON null, an object without
\* "data", or an object whose "data" is null or a value.
UsageBodies ==
    { [shape |-> "null", data |-> Null], [shape |-> "nodata", data |-> Null] }
    \cup { [shape |-> "ok", data |-> d] : d \in {Usage, Null} }

\* get_usage_range without the `usage_response is None` test.
usage_request_no_null_check ==
    /\ pc = "usage_req"
    /\ pc' = "done"
    /\ account_data' = account_data
    /\ session \notin closed
    /\ DataRequest("usage")
    /\ \E body \in UsageBodies :
          /\ usage_response' = body
          /\ CASE body.shape = "null" ->
                     /\ usage_data' = usage_data
                     /\ result' = Raised("TypeError")
               [] body.shape = "nodata" ->
                     /\ usage_data' = usage_data
                     /\ result' = Raised("KeyError")
               [] OTHER ->
                     /\ usage_data' = body.data
                     /\ result' = ReturnedDict(body.data, dashboard_data)
    /\ UNCHANGED <<logged_in, session, account_number, premise_id, dashboard_data,
                   handler, pool, op, start, end, ncalls, nlogin, page, calc>>

\* Lines 565-580.
usage_request ==
    /\ pc = "usage_req"
    /\ pc' = "done"
    /\ account_data' = account_data
    /\ IF session \in closed
          THEN /\ result' = Raised("RuntimeError")
               /\ UNCHANGED <<usage_data, reqs, sent, data, usage_response>>
          ELSE /\ DataRequest("usage")
               /\ \/ /\ result' = Raised("ClientResponseError")
                     /\ UNCHANGED <<usage_data, usage_response>>
                  \/ \E body \in UsageBodies :
                        /\ usage_response' = body
                        /\ CASE body.shape = "null" ->
                                   /\ usage_data' = Null
                                   /\ result' = Returned("None")
                             [] body.shape = "nodata" ->
                                   /\ usage_data' = usage_data
                                   /\ result' = Raised("KeyError")
                             [] OTHER ->
                                   /\ usage_data' = body.data
                                   /\ result' = ReturnedDict(body.data, dashboard_data)
    /\ UNCHANGED <<logged_in, session, account_number, premise_id, dashboard_data,
                   handler, pool, op, start, end, ncalls, nlogin, page, calc>>

\* The caller takes the outcome of the finished call (the returned value or
\* the exception); the call's arguments and its request trace are dropped.
call_returns ==
    /\ pc = "done"
    /\ pc' = "idle"
    /\ op' = "none"
    /\ result' = NoResult
    /\ reqs' = << >>
    /\ start' = Null
    /\ end' = Null
    /\ nlogin' = 0
    /\ usage_response' = NoUsageResponse
    /\ UNCHANGED <<evergy, handler, locals, pool, ncalls, page, calc>>

Next ==
    \/ login
    \/ get_auth_data
    \/ get_sdktoken
    \/ start_flow
    \/ get_login_form
    \/ submit_login_form
    \/ get_new_connection_id
    \/ get_new_connection_cookie
    \/ get_new_access_token
    \/ postprocessing_api
    \/ account
    \/ dashboard
    \/ login_exit
    \/ logout
    \/ logout_request
    \/ get_usage_range
    \/ usage_request
    \/ call_returns

Spec == Init /\ [][Next]_vars

\* ------------------------------------------- the interval arithmetic alone
\* A caller applies get_end_date_from_number_of_intervals to arguments of its
\* choice; the client is not touched.
end_date_call ==
    /\ \E f \in FromDates, n \in Counts, i \in Intervals :
          /\ call_from' = f
          /\ call_count' = n
          /\ call_interval' = i
          /\ call_end' = get_end_date_from_number_of_intervals(f, n, i)
    /\ UNCHANGED <<evergy, handler, locals, pool, op, pc, start, end, result, reqs,
                   ncalls, nlogin, usage_response, page>>

NextIntervals == end_date_call

SpecIntervals == Init /\ [][NextIntervals]_vars

\* ------------------------------------------------------------ properties
StepSet == { Steps[i] : i \in 1..Len(Steps) }
DataSteps == {"account", "dashboard", "usage", "logout"}

\* The handshake requests of the running call, in the order issued.
IsHandshakeReq(r) == r.step \in StepSet
HsReqs == SelectSeq(reqs, IsHandshakeReq)

NoSuchUser == "InvalidAuth: No such username"
WrongPassword == "InvalidAuth: Wrong password"

\* C1: the handshake requests of a login() run are a prefix of the fixed
\* nine-step order, all on the session of that run (so no step is issued
\* twice, none out of order); login() is parked at step k only when exactly
\* the k-1 steps before it were issued and none has failed; a request to a
\* data endpoint follows only a complete handshake; and a call that ends with
\* the handshake begun but incomplete ends by raising to the caller, the
\* failed step's request being the last one issued.
C1_StepsInOrder ==
    /\ \A i \in 1..Len(HsReqs) :
          /\ i <= Len(Steps)
          /\ HsReqs[i].step = Steps[i]
          /\ HsReqs[i].sess = session
          /\ reqs[i] = HsReqs[i]
    /\ \A k \in 1..Len(Steps) :
          pc = Steps[k] => Len(HsReqs) = k - 1 /\ result = NoResult
    /\ Len(reqs) > Len(HsReqs) => Len(HsReqs) \in {0, Len(Steps)}
    /\ (pc \in {"login_exit", "done"} /\ Len(HsReqs) \in 1..(Len(Steps) - 1))
          => result.kind = "raise" /\ Len(reqs) = Len(HsReqs)
    /\ (pc \in {"login_exit", "done"} /\ result.kind = "return" /\ op = "login")
          => Len(HsReqs) = Len(Steps)

\* All nine requests went out and the handshake is complete.
C1_Witness ==
    /\ pc = "account"
    /\ Len(HsReqs) = Len(Steps)
    /\ session \in authed

\* C2: when the credential-submission response carries a flowId other than
\* the one start_flow stored, submit_login_form raises InvalidAuth "No such
\* username", whatever id the response carries; and a login() that raised it
\* has issued no get_new_connection_id request and issues none.
C2_UnknownUsername ==
    /\ (sent.step = Steps[5] /\ data.flowId # Missing /\ data.flowId # flowId)
          => /\ pc = "login_exit"
             /\ result = Raised(NoSuchUser)
    /\ result = Raised(NoSuchUser)
          => /\ pc \in {"login_exit", "done"}
             /\ \A i \in 1..Len(reqs) : reqs[i].step # Steps[6]
             /\ reqs[Len(reqs)].step = Steps[5]

\* The response has another flowId and the very id that was submitted.
C2_Witness ==
    /\ pc = "login_exit"
    /\ sent.step = Steps[5]
    /\ data.flowId # Missing /\ data.flowId # flowId
    /\ data.id = sent.id
    /\ result = Raised(NoSuchUser)

\* C3 as claimed: a credential-submission response (carrying both fields)
\* whose id equals the submitted id always raises InvalidAuth "Wrong password".
C3_Original ==
    (sent.step = Steps[5] /\ data.flowId # Missing /\ data.id # Missing
       /\ data.id = sent.id)
       => result = Raised(WrongPassword)

\* C3 amended: a credential-submission response whose flowId equals the one
\* start_flow stored and whose id equals the submitted id raises InvalidAuth
\* "Wrong password", and the stored step id stays the submitted one.
C3_WrongPassword ==
    (sent.step = Steps[5] /\ data.flowId = flowId /\ data.id = sent.id)
       => /\ pc = "login_exit"
          /\ result = Raised(WrongPassword)
          /\ id = sent.id

C3_Witness ==
    /\ pc = "login_exit"
    /\ sent.step = Steps[5]
    /\ data.flowId = flowId
    /\ data.id = sent.id
    /\ result = Raised(WrongPassword)

\* C4 as claimed: a get_usage_range call with start > end has issued no
\* request at any point, and ends by raising EvergyException.
C4_Original ==
    (op = "get_usage_range" /\ start > end)
       => /\ reqs = << >>
          /\ pc = "done" => result = Raised("EvergyException")

\* C5 as claimed: when the account selector answers with an empty list,
\* login() returns False and account_number and premise_id are unset.
C5_Original ==
    (pc = "login_exit" /\ account_data.kind = "list" /\ account_data.len = 0)
       => /\ result = Returned("False")
          /\ account_number = Null
          /\ premise_id = Null

\* An empty account selector body: JSON null or the empty list.
EmptyAccountData == account_data.kind # "none" /\ account_data.len = 0

Live == (1..nsess) \ closed

\* C7 as claimed: at most one session created by the client is live.
C7_Original == Cardinality(Live) <= 1

\* C8 as claimed: every request to a data endpoint or to logout goes out on
\* a session whose handshake ran to completion.
C8_Original ==
    \A i \in 1..Len(reqs) : reqs[i].step \in DataSteps => reqs[i].sess \in authed

\* The states in which a handshake is past start_flow.
AfterStartFlow ==
    { Steps[k] : k \in 4..Len(Steps) } \cup {"account", "dashboard"}

\* C9: when start_flow has returned, flowId and interactionId are the ones of
\* its response, and no later step of the handshake (nor the reads that follow
\* it) changes either, whatever the responses carry.
C9_FlowIdFixed ==
    /\ [](pc = Steps[4] => flowId = data.flowId /\ interactionId = data.interactionId)
    /\ [][(pc \in AfterStartFlow) => (flowId' = flowId /\ interactionId' = interactionId)]_vars

\* The handshake ran to its end with the flowId start_flow stored.
C9_Witness ==
    /\ pc = "account"
    /\ flowId \in Opaque
    /\ interactionId \in Opaque

\* C10 as claimed: between calls, logged_in holds only when account_number
\* and premise_id are both non-null.
C10_Original ==
    (pc \in {"idle", "done"} /\ logged_in)
       => account_number # Null /\ premise_id # Null

\* C11: a get_usage_range call enters login() once when logged_in is false at
\* its entry and not at all when it is true, and never enters it again before
\* the call ends, whatever login() returned.
C11_LazyLoginOnce ==
    /\ [](op = "get_usage_range" => nlogin <= 1)
    /\ [][(pc = "idle" /\ op' = "get_usage_range") => (nlogin' = IF logged_in THEN 0 ELSE 1)]_vars
    /\ [][(op = "get_usage_range" /\ pc # "done") => (nlogin' = nlogin)]_vars

\* login() returned False and the call went on to the usage request without
\* logging in again.
C11_Witness ==
    /\ op = "get_usage_range"
    /\ pc = "usage_req"
    /\ nlogin = 1
    /\ ~logged_in

\* C12 as claimed: when the usage body is null, or its data field is null or
\* missing, get_usage_range returns None.
C12_Original ==
    (pc = "done"
       /\ (usage_response.shape \in {"null", "nodata"}
             \/ (usage_response.shape = "ok" /\ usage_response.data = Null)))
       => result = Returned("None")

\* C12 amended: a null usage body makes get_usage_range return None without
\* an error and clears usage_data; a body whose data field is null returns
\* the dict with usage None; a body without a data field raises KeyError and
\* leaves usage_data alone.
C12_NullBody ==
    /\ []((pc = "done" /\ usage_response.shape = "null")
          => result = Returned("None") /\ usage_data = Null)
    /\ []((pc = "done" /\ usage_response.shape = "ok")
          => /\ result = ReturnedDict(usage_response.data, dashboard_data)
             /\ usage_data = usage_response.data)
    /\ []((pc = "done" /\ usage_response.shape = "nodata")
          => result = Raised("KeyError"))
    /\ [][(pc = "usage_req" /\ usage_response'.shape = "nodata") => (usage_data' = usage_data)]_vars

C12_Witness ==
    /\ pc = "done"
    /\ usage_response.shape = "null"
    /\ reqs[Len(reqs)].step = "usage"
    /\ result = Returned("None")

\* C13: logout() closes the session and clears logged_in only in the step
\* that sent the logout request and got a non-empty body; a logout() that
\* returns normally leaves the session closed and logged_in false, having
\* sent exactly the logout request; a logout() that raises (request failed,
\* empty body) leaves the set of closed sessions and logged_in as they were.
C13_LogoutOrder ==
    /\ []((pc = "done" /\ op = "logout" /\ result.kind = "return")
          => /\ session \in closed
             /\ ~logged_in
             /\ reqs = << [step |-> "logout", sess |-> session] >>)
    /\ [][(pc = "logout_req" /\ result'.kind = "return") => (closed' = closed \cup {session} /\ session \notin closed /\ ~logged_in' /\ reqs' = Append(reqs, [step |-> "logout", sess |-> session]))]_vars
    /\ [][(op = "logout" /\ result'.kind = "raise") => (closed' = closed /\ logged_in' = logged_in)]_vars
    /\ [][(closed' # closed) => (pc = "logout_req" /\ result'.kind = "return")]_vars

\* logout() returned after a logged-in client's session was closed.
C13_Witness ==
    /\ pc = "done"
    /\ op = "logout"
    /\ result = Returned("None")
    /\ session \in closed
    /\ session \in authed
    /\ account_number = Account

\* C14: when get_new_access_token has returned, the stored access_token is
\* the one of its response; postprocessing_api sends that stored token and
\* changes no field of the handler, so after the handshake the stored token
\* is still the one get_new_access_token received.
C14_TokenRefreshed ==
    /\ [](pc = Steps[9]
            => /\ sent.step = Steps[8]
               /\ data.access_token # Missing
               /\ access_token = data.access_token)
    /\ [](pc = "account" => sent.step = Steps[9] /\ sent.access_token = access_token)
    /\ [][(pc = Steps[9]) => (UNCHANGED handler /\ sent'.access_token = access_token)]_vars

\* The handshake is complete and postprocessing_api sent the stored token.
C14_Witness ==
    /\ pc = "account"
    /\ session \in authed
    /\ sent.step = Steps[9]
    /\ access_token \in Opaque
    /\ sent.access_token = access_token

\* C15 as claimed: when the login page has no widget element, or one that
\* lacks an attribute, get_auth_data fails with the missing-widget-data error
\* (the assert "Failed to get davinci widget data"), the handler holds no
\* descriptor, and get_auth_data's request is the only one issued.
C15_Original ==
    (pc \in {"login_exit", "done"} /\ page \in {"nowidget", "missingattr"})
       => /\ result = Raised("AssertionError")
          /\ auth_data # "descriptor"
          /\ Len(reqs) = 1

\* The account context of the client.
AccountContext == <<account_number, premise_id, dashboard_data>>

\* C16: account_number, premise_id and dashboard_data change only in the
\* account and dashboard reads of login(); a logout() call and a
\* get_usage_range call that did not log in leave all three as they were, and
\* the dashboard in the dict get_usage_range returns is the stored
\* dashboard_data, i.e. what the last login() that stored one left there.
C16_ContextOnlyInLogin ==
    /\ [][(AccountContext' # AccountContext) => (pc \in {"account", "dashboard"} /\ nlogin > 0)]_vars
    /\ [][(op' = "logout" \/ (op' = "get_usage_range" /\ nlogin' = 0)) => (UNCHANGED AccountContext)]_vars
    /\ []((result.kind = "return" /\ result.val = "dict") => (result.dashboard = dashboard_data))

\* C16 witness: get_usage_range, called while logged in, has returned the
\* dict carrying the dashboard stored by the earlier login().
C16_Witness ==
    /\ pc = "done"
    /\ op = "get_usage_range"
    /\ nlogin = 0
    /\ result.kind = "return"
    /\ result.val = "dict"
    /\ result.dashboard = dashboard_data
    /\ dashboard_data.shape = "ok"
    /\ account_number = Account
    /\ premise_id = Premise

\* The two InvalidAuth errors, as the caller sees them.
InvalidAuthErrors == {NoSuchUser, WrongPassword}
IsInvalidAuth(r) == r.kind = "raise" /\ r.val \in InvalidAuthErrors

\* C17: a call fails with InvalidAuth only when submit_login_form raised it
\* on its own response (the last request of the call is the credential
\* submission, inside a login()); no other handshake step, account or
\* dashboard read, logout or usage fetch produces it; and a credential
\* response whose flowId matches and whose id differs from the submitted one
\* never produces it.
C17_InvalidAuthOnlyFromSubmit ==
    /\ [](IsInvalidAuth(result) => (nlogin > 0 /\ reqs # << >> /\ reqs[Len(reqs)].step = Steps[5]))
    /\ [][(IsInvalidAuth(result') /\ ~IsInvalidAuth(result)) => (pc = Steps[5] /\ (data'.flowId # flowId \/ data'.id = id))]_vars
    /\ [][(pc = Steps[5] /\ data'.flowId = flowId /\ data'.id # id) => (~IsInvalidAuth(result'))]_vars

\* C17 witness: submit_login_form got a response with the handler's flowId
\* and a new id, and the handshake went on to get_new_connection_id.
C17_Witness ==
    /\ pc = Steps[6]
    /\ sent.step = Steps[5]
    /\ data.flowId = flowId
    /\ data.id # sent.id
    /\ data.id = id
    /\ ~IsInvalidAuth(result)

\* Minutes from the epoch to a datetime.
Minutes(dt) == dt.day * MinutesPerDay + dt.minute

\* The length in minutes of the unit each documented interval stands for.
Unit(interval) ==
    IF interval = "mi" THEN 15 ELSE IF interval = "h" THEN 60 ELSE MinutesPerDay

\* C18: for a count of at least 1 and interval 'mi', 'h' or 'd', the function
\* returns the start moved forward by count-1 units of 15 minutes, one hour
\* or one day, as a well-formed datetime; with count 1 it returns the start.
C18_EndDate ==
    (call_count >= 1 /\ call_interval \in {"mi", "h", "d"})
       => /\ Minutes(call_end) = Minutes(call_from) + (call_count - 1) * Unit(call_interval)
          /\ call_end.minute \in 0..(MinutesPerDay - 1)
          /\ (call_count = 1) => (call_end = call_from)

\* C18 witness: three hourly intervals from 23:00 end at 01:00 of the next day.
C18_Witness ==
    /\ call_from = Datetime(1, 23 * 60)
    /\ call_count = 3
    /\ call_interval = "h"
    /\ call_end = Datetime(2, 60)

\* C19: each request of steps 4 to 8 (get_login_form .. get_new_access_token)
\* is sent right after the step before it returned, with the id of that
\* step's response body; steps 4 and 7 are addressed to the connectionId of
\* the response just received (start_flow's, get_new_connection_id's), and
\* steps 5, 6 and 8 to the connectionId of the request before them, so that
\* 4, 5, 6 use start_flow's and 7, 8 use get_new_connection_id's.
C19_RequestChain ==
    /\ [][\A k \in 4..8 : (pc = Steps[k]) => (sent.step = Steps[k - 1] /\ sent'.step = Steps[k] /\ data.id \in Vals /\ sent'.id = data.id)]_vars
    /\ [][\A k \in {4, 7} : (pc = Steps[k]) => (data.connectionId \in Opaque /\ sent'.connectionId = data.connectionId)]_vars
    /\ [][\A k \in {5, 6, 8} : (pc = Steps[k]) => (sent.connectionId \in Opaque /\ sent'.connectionId = sent.connectionId)]_vars

\* C19 witness: get_new_access_token has sent its request with the id that
\* get_new_connection_cookie returned, to the connection that
\* get_new_connection_id returned.
C19_Witness ==
    /\ pc \in {Steps[9], "login_exit"}
    /\ sent.step = Steps[8]
    /\ sent.id \in Vals
    /\ sent.connectionId = connectionId
    /\ connectionId \in Opaque
    /\ Len(HsReqs) = 8

\* C20: submit_login_form assigns only id, and only when the response's
\* flowId is the handler's and its id differs from the submitted one: id then
\* becomes the response id.  When it raises InvalidAuth (either message) id,
\* connectionId, interactionId, flowId and access_token are what they were.
C20_SubmitFrame ==
    /\ [][(pc = Steps[5]) => (UNCHANGED <<auth_data, access_token, connectionId, interactionId, flowId>>)]_vars
    /\ [][(pc = Steps[5] /\ id' # id) => (data'.flowId = flowId /\ data'.id # id /\ id' = data'.id /\ pc' = Steps[6])]_vars
    /\ [][(pc = Steps[5] /\ data'.flowId = flowId /\ data'.id \in Vals /\ data'.id # id) => (id' = data'.id /\ pc' = Steps[6])]_vars
    /\ [][(pc = Steps[5] /\ IsInvalidAuth(result')) => (UNCHANGED handler)]_vars

\* C20 witness: the portal answered the credentials with the handler's flowId
\* and a new id different from the one submitted; InvalidAuth "Wrong
\* password" was not raised and the handler holds the new id.
C20_Witness ==
    /\ pc = Steps[6]
    /\ sent.step = Steps[5]
    /\ sent.id \in Vals
    /\ data.id \in Vals
    /\ data.id # sent.id
    /\ id = data.id
    /\ flowId = data.flowId
    /\ result.kind = "none"
\* C21 as claimed: whenever get_usage_range has sent the usage request, the
\* client is logged in and premise_id is not null; in particular no usage
\* request follows a lazy login() that returned False.
C21_Original ==
    (op = "get_usage_range" /\ reqs # << >> /\ reqs[Len(reqs)].step = "usage")
       => (logged_in /\ premise_id # Null)
====
